---- MODULE Spec2Model ----
(***************************************************************************)
(* Model of src/src/finder.rs (which-rs): Finder::find, the candidate      *)
(* generators, the platform stage append_extension and the lazily          *)
(* initialised PATH_EXTENSIONS table.                                      *)
(*                                                                         *)
(* A path or string is a sequence of one-character strings.  An Option is  *)
(* a sequence of length 0 (None) or 1 (Some).  The build configuration     *)
(* (#[cfg(unix)] / #[cfg(windows)]) is the variable `windows`.             *)
(***************************************************************************)
EXTENDS Naturals, Sequences, FiniteSets

VARIABLES
    windows,          \* build configuration: TRUE for #[cfg(windows)]
    binary_name,      \* find's argument binary_name
    paths,            \* find's argument paths: Option of the delimited list
    cwd,              \* find's argument cwd
    pathext,          \* the environment value PATHEXT (see EnvValues)
    pc,               \* position of the caller / of the iterator pipeline
    result,           \* "none", "Ok" or "Err" (CannotFindBinaryPath)
    strategy,         \* "none", "direct" (Either::Left) or "list" (Either::Right)
    candidates,       \* pre-expansion sequence held by the iterator
    outer,            \* how many pre-expansion candidates were pulled
    inner,            \* flat_map's current inner iterator (items left)
    cand,             \* the candidate handed to the filter closure
    generated,        \* history: pre-expansion candidates pulled so far
    groups,           \* history: groups[i] = candidates expanded from generated[i]
    checked,          \* history: calls of binary_checker.is_valid, with results
    yielded,          \* history: items returned to the caller
    calls,            \* history: number of next() calls made by the caller
    once_state,       \* lazy_static cell: incomplete, running, complete, poisoned
    PATH_EXTENSIONS,  \* the value of the lazy_static cell
    envReads,         \* number of reads of PATHEXT by the initialiser
    initRead,         \* history: Option of the environment value the initialiser read
    initSegs,         \* initialiser: segments of the value still to filter
    initAcc,          \* initialiser: the vector being collected
    tpc,              \* per party: position in a dereference of PATH_EXTENSIONS
    tobs,             \* per party: Option of the table the last dereference saw
    seen              \* history: every table a dereference returned

findVars == <<binary_name, paths, cwd, pc, result, strategy, candidates, outer,
              inner, cand, generated, groups, checked, yielded, calls>>
staticVars == <<once_state, PATH_EXTENSIONS, envReads, initRead>>
raceVars == <<initSegs, initAcc, tpc, tobs, seen>>
vars == <<windows, pathext, findVars, staticVars, raceVars>>

----------------------------------------------------------------------------
(* Bounds of the input sets.                                               *)
MaxNameLen == 3
MaxDirLen == 2
MaxPathsLen == 3
MaxPathExtLen == 4
MaxThreads == 2

None == <<>>
Some(v) == <<v>>

Strings(A, n) == UNION {[1..k -> A] : k \in 0..n}

Last(s) == s[Len(s)]

----------------------------------------------------------------------------
(* std::path and std::env as used by finder.rs.                            *)

Seps(w) == IF w THEN {"/", "\\"} ELSE {"/"}
MainSep(w) == IF w THEN "\\" ELSE "/"
ListSep(w) == IF w THEN ";" ELSE ":"

RECURSIVE Split(_, _)
Split(s, D) ==
    IF \E i \in 1..Len(s) : s[i] \in D
    THEN LET i == CHOOSE k \in 1..Len(s) :
                      s[k] \in D /\ \A j \in 1..(k - 1) : s[j] \notin D
         IN  <<SubSeq(s, 1, i - 1)>> \o Split(SubSeq(s, i + 1, Len(s)), D)
    ELSE <<s>>

HasRoot(w, p) == p # <<>> /\ p[1] \in Seps(w)

\* Path::is_absolute.  On Windows an absolute path also needs a prefix
\* (drive or UNC), for which the alphabets below have no character.
IsAbsolute(w, p) == ~w /\ HasRoot(w, p)

IsNormal(seg) == seg # <<>> /\ seg # <<".">>

\* Path::components().count(): the root, a leading "." of a rootless path,
\* and every segment that is neither empty nor ".".
ComponentsCount(w, p) ==
    LET segs == Split(p, Seps(w))
    IN  (IF HasRoot(w, p) THEN 1 ELSE 0)
        + (IF ~HasRoot(w, p) /\ segs[1] = <<".">> THEN 1 ELSE 0)
        + Len(SelectSeq(segs, IsNormal))

has_separator(w, p) == ComponentsCount(w, p) > 1

\* PathBuf::push / Path::join: a rooted argument replaces the base,
\* otherwise it is appended after a separator when the base needs one.
join(w, base, p) ==
    IF HasRoot(w, p) THEN p
    ELSE IF base # <<>> /\ Last(base) \notin Seps(w)
         THEN base \o <<MainSep(w)>> \o p
         ELSE base \o p

to_absolute(w, p, dir) == IF IsAbsolute(w, p) THEN p ELSE join(w, dir, p)

split_paths(w, s) == Split(s, {ListSep(w)})

cwd_search_candidates(w, name, dir) == <<to_absolute(w, name, dir)>>

NonEmpty(seg) == seg # <<>>

\* Faulty variant: empty entries of the search list are dropped before the join.
path_search_candidates_skipping(w, name, dirs) ==
    [i \in 1..Len(SelectSeq(dirs, NonEmpty)) |->
        join(w, SelectSeq(dirs, NonEmpty)[i], name)]

path_search_candidates(w, name, dirs) ==
    [i \in 1..Len(dirs) |-> join(w, dirs[i], name)]

\* Faulty variant: the missing search list is reported before the name is classified.
find_fails_early(w, name, ps) == ps = None

\* paths.ok_or(Error::CannotFindBinaryPath)? on the list-search branch.
find_fails(w, name, ps) == ~has_separator(w, name) /\ ps = None

binary_path_candidates(w, name, ps, dir) ==
    IF has_separator(w, name)
    THEN cwd_search_candidates(w, name, dir)
    ELSE path_search_candidates(w, name, split_paths(w, ps[1]))

\* Faulty variant: the filter keeps every candidate.
filter_keeps_all(ok) == TRUE

\* The closure of .filter(): keep the candidate iff is_valid returned true.
filter_keeps(ok) == ok

----------------------------------------------------------------------------
(* PATH_EXTENSIONS.  The environment value is absent (<<>>), a Unicode     *)
(* string s (<<s>>) or not Unicode (EnvNotUnicode).                        *)

EnvNotUnicode == <<<<>>, <<>>>>
EnvIsOk(env) == Len(env) = 1

\* s.as_bytes()[0] on an empty segment indexes out of bounds.
segment_panics(seg) == seg = <<>>
segment_kept(seg) == seg[1] = "."

\* The value the initialiser computes when no segment panics.
path_extensions(env) ==
    IF EnvIsOk(env) THEN SelectSeq(Split(env[1], {";"}), segment_kept) ELSE <<>>

EndsWith(s, suf) ==
    /\ Len(suf) <= Len(s)
    /\ SubSeq(s, Len(s) - Len(suf) + 1, Len(s)) = suf

FinalSegment(w, p) == Last(Split(p, Seps(w)))

has_executable_extension(w, p, exts) ==
    \E i \in 1..Len(exts) : EndsWith(FinalSegment(w, p), exts[i])

\* Faulty variant: the suffix is appended without its dot.
with_extension_nodot(p, e) == p \o Tail(e)

with_extension(p, e) == p \o e

\* Faulty variant: the suffixes are appended without looking at the candidate's own.
append_extension_always(w, p, exts) ==
    IF ~w THEN <<p>> ELSE [i \in 1..Len(exts) |-> p \o exts[i]]

\* The inner iterator flat_map builds for one candidate (windows), or the
\* candidate itself (unix, where append_extension returns its argument).
append_extension(w, p, exts) ==
    IF ~w THEN <<p>>
    ELSE IF has_executable_extension(w, p, exts) THEN <<p>>
    ELSE [i \in 1..Len(exts) |-> with_extension(p, exts[i])]

----------------------------------------------------------------------------
(* Input sets.                                                             *)

NameChars == {"/", ".", "a"}
DirChars == {"/", "a"}
BareChars == {".", "a"}
ExtChars == {";", ".", "a"}

Names == Strings(NameChars, MaxNameLen)
BareNames == Strings(BareChars, MaxNameLen - 2)
Dirs == Strings(DirChars, MaxDirLen)
PathLists(w) == Strings(DirChars \cup {ListSep(w)}, MaxPathsLen)
EnvValues ==
    {None, EnvNotUnicode} \cup {Some(s) : s \in Strings(ExtChars, MaxPathExtLen)}
\* The parties that dereference PATH_EXTENSIONS: party 0 is the thread that
\* iterates the result of find, the others are threads doing the same
\* dereference on behalf of other resolution calls.
Threads == 1..MaxThreads
Parties == {0} \cup Threads
IsFinder(t) == t = 0
\* The parties that run beside a find call: the finder and one other thread.
FindParties == {0, 1}

UnixInputs ==
    {<<n, ps, d>> : n \in Names, ps \in {None, Some(<<"a">>)}, d \in Dirs}
    \cup {<<n, ps, d>> : n \in Names,
                         ps \in {None} \cup {Some(s) : s \in PathLists(FALSE)},
                         d \in {<<"/">>}}

WindowsInputs ==
    {<<n, ps, d>> : n \in BareNames,
                    ps \in {None, Some(<<"a", ";", "/">>)},
                    d \in {<<"/">>}}

IdleFind ==
    /\ pc = "start" /\ result = "none" /\ strategy = "none"
    /\ candidates = <<>> /\ outer = 0 /\ inner = <<>> /\ cand = <<>>
    /\ generated = <<>> /\ groups = <<>> /\ checked = <<>> /\ yielded = <<>>
    /\ calls = 0

IdleStatic ==
    /\ once_state = "incomplete" /\ PATH_EXTENSIONS = <<>> /\ envReads = 0
    /\ initRead = None

IdleRace ==
    /\ initSegs = <<>> /\ initAcc = <<>>
    /\ tpc = [t \in Parties |-> "idle"]
    /\ tobs = [t \in Parties |-> None]
    /\ seen = {}

Init ==
    /\ windows \in BOOLEAN
    /\ \E in \in (IF windows THEN WindowsInputs ELSE UnixInputs) :
          /\ binary_name = in[1]
          /\ paths = in[2]
          /\ cwd = in[3]
    /\ pathext \in (IF windows THEN EnvValues ELSE {None})
    /\ IdleFind /\ IdleStatic /\ IdleRace

----------------------------------------------------------------------------
(* Finder::find and the iteration of the sequence it returns.              *)

\* Faulty variant: find itself starts pulling from the pipeline.
Find_primed ==
    /\ pc = "start"
    /\ IF find_fails(windows, binary_name, paths)
       THEN /\ result' = "Err"
            /\ strategy' = "list"
            /\ pc' = "err"
            /\ candidates' = <<>>
       ELSE /\ result' = "Ok"
            /\ strategy' = IF has_separator(windows, binary_name)
                           THEN "direct" ELSE "list"
            /\ pc' = "next"
            /\ candidates' = binary_path_candidates(windows, binary_name, paths, cwd)
    /\ UNCHANGED <<windows, pathext, binary_name, paths, cwd, outer, inner, cand,
                   generated, groups, checked, yielded, calls, staticVars, raceVars>>

Find ==
    /\ pc = "start"
    /\ IF find_fails(windows, binary_name, paths)
       THEN /\ result' = "Err"
            /\ strategy' = "list"
            /\ pc' = "err"
            /\ candidates' = <<>>
       ELSE /\ result' = "Ok"
            /\ strategy' = IF has_separator(windows, binary_name)
                           THEN "direct" ELSE "list"
            /\ pc' = "idle"
            /\ candidates' = binary_path_candidates(windows, binary_name, paths, cwd)
    /\ UNCHANGED <<windows, pathext, binary_name, paths, cwd, outer, inner, cand,
                   generated, groups, checked, yielded, calls, staticVars, raceVars>>

\* The caller asks the returned iterator for its next item.
CallNext ==
    /\ pc = "idle"
    /\ pc' = "next"
    /\ calls' = calls + 1
    /\ UNCHANGED <<windows, pathext, binary_name, paths, cwd, result, strategy,
                   candidates, outer, inner, cand, generated, groups, checked,
                   yielded, staticVars, raceVars>>

\* flat_map pulls the next pre-expansion candidate (the map closure of
\* line 93 on the list branch) and calls its closure.  On unix the candidate
\* is passed on as it is; on windows the closure first dereferences
\* PATH_EXTENSIONS (pc = "deref"), which party 0 does with Deref, ReadEnv,
\* FilterSegment, Publish and Wake below like every other thread.  If that
\* dereference panics, tpc[0] = "panicked" and the iteration never resumes.
PullOuter ==
    /\ pc = "next"
    /\ inner = <<>>
    /\ outer < Len(candidates)
    /\ outer' = outer + 1
    /\ generated' = Append(generated, candidates[outer + 1])
    /\ groups' = Append(groups, <<>>)
    /\ IF windows
       THEN /\ pc' = "deref"
            /\ inner' = inner
       ELSE /\ pc' = "next"
            /\ inner' = append_extension(windows, candidates[outer + 1], <<>>)
    /\ UNCHANGED <<windows, pathext, binary_name, paths, cwd, result, strategy,
                   candidates, cand, checked, yielded, calls, staticVars,
                   raceVars>>

\* The windows closure, holding the reference to the table, builds the inner
\* iterator of the candidate it was called with.
Expand ==
    /\ pc = "deref"
    /\ tpc[0] = "got"
    /\ inner' = append_extension(windows, Last(generated), tobs[0][1])
    /\ pc' = "next"
    /\ tpc' = [tpc EXCEPT ![0] = "idle"]
    /\ UNCHANGED <<windows, pathext, binary_name, paths, cwd, result, strategy,
                   candidates, outer, cand, generated, groups, checked, yielded,
                   calls, staticVars, initSegs, initAcc, tobs, seen>>

\* The inner iterator hands one expanded candidate to the filter.
PullInner ==
    /\ pc = "next"
    /\ inner # <<>>
    /\ cand' = Head(inner)
    /\ inner' = Tail(inner)
    /\ groups' = [groups EXCEPT ![Len(groups)] = Append(@, Head(inner))]
    /\ pc' = "check"
    /\ UNCHANGED <<windows, pathext, binary_name, paths, cwd, result, strategy,
                   candidates, outer, generated, checked, yielded, calls,
                   staticVars, raceVars>>

\* The filter closure calls binary_checker.is_valid(p); the checker is an
\* external capability, so its answer is any boolean.
Check ==
    /\ pc = "check"
    /\ \E ok \in BOOLEAN :
          /\ checked' = Append(checked, [path |-> cand, ok |-> ok])
          /\ IF filter_keeps(ok)
             THEN /\ yielded' = Append(yielded, cand)
                  /\ pc' = "idle"
             ELSE /\ yielded' = yielded
                  /\ pc' = "next"
    /\ cand' = <<>>
    /\ UNCHANGED <<windows, pathext, binary_name, paths, cwd, result, strategy,
                   candidates, outer, inner, generated, groups, calls, staticVars,
                   raceVars>>

\* The pre-expansion sequence is exhausted: next() returns None.
Exhaust ==
    /\ pc = "next"
    /\ inner = <<>>
    /\ outer = Len(candidates)
    /\ pc' = "done"
    /\ UNCHANGED <<windows, pathext, binary_name, paths, cwd, result, strategy,
                   candidates, outer, inner, cand, generated, groups, checked,
                   yielded, calls, staticVars, raceVars>>

----------------------------------------------------------------------------
(* PATH_EXTENSIONS under concurrent first access.  lazy_static guards the  *)
(* initialiser with a Once: the first dereference runs it, dereferences    *)
(* that arrive meanwhile block, and a panic inside it poisons the cell.    *)

InitStatic ==
    /\ windows = TRUE
    /\ binary_name = <<>> /\ paths = None /\ cwd = <<>>
    /\ pathext \in EnvValues
    /\ IdleFind /\ IdleStatic /\ IdleRace

\* What setenv may store while the process runs.
SetenvValues == {Some(<<".">>)}

\* Where a party stands once it holds the reference: party 0 goes on inside
\* the flat_map closure, another thread is done with it.
Held(t) == IF IsFinder(t) THEN "got" ELSE "idle"

\* Party 0 dereferences only inside the flat_map closure.
MayDeref(t) == windows /\ tpc[t] = "idle" /\ (IsFinder(t) => pc = "deref")

observe(t) ==
    /\ tobs' = [tobs EXCEPT ![t] = Some(PATH_EXTENSIONS)]
    /\ seen' = seen \cup {PATH_EXTENSIONS}

\* Faulty variant: the first dereference does not mark the Once as running.
Deref_unguarded(t) ==
    /\ MayDeref(t)
    /\ CASE once_state = "complete" ->
              /\ observe(t)
              /\ tpc' = [tpc EXCEPT ![t] = Held(t)]
              /\ UNCHANGED once_state
         [] once_state = "poisoned" ->
              /\ tpc' = [tpc EXCEPT ![t] = "panicked"]
              /\ UNCHANGED <<tobs, seen, once_state>>
         [] once_state = "running" ->
              /\ tpc' = [tpc EXCEPT ![t] = "waiting"]
              /\ UNCHANGED <<tobs, seen, once_state>>
         [] once_state = "incomplete" ->
              /\ tpc' = [tpc EXCEPT ![t] = "read"]
              /\ UNCHANGED <<tobs, seen, once_state>>
    /\ UNCHANGED <<windows, pathext, findVars, PATH_EXTENSIONS, envReads, initRead,
                   initSegs, initAcc>>

\* A thread reaches `&PATH_EXTENSIONS` (line 139 or 148).
Deref(t) ==
    /\ MayDeref(t)
    /\ CASE once_state = "complete" ->
              /\ observe(t)
              /\ tpc' = [tpc EXCEPT ![t] = Held(t)]
              /\ UNCHANGED once_state
         [] once_state = "poisoned" ->
              /\ tpc' = [tpc EXCEPT ![t] = "panicked"]
              /\ UNCHANGED <<tobs, seen, once_state>>
         [] once_state = "running" ->
              /\ tpc' = [tpc EXCEPT ![t] = "waiting"]
              /\ UNCHANGED <<tobs, seen, once_state>>
         [] once_state = "incomplete" ->
              /\ once_state' = "running"
              /\ tpc' = [tpc EXCEPT ![t] = "read"]
              /\ UNCHANGED <<tobs, seen>>
    /\ UNCHANGED <<windows, pathext, findVars, PATH_EXTENSIONS, envReads, initRead,
                   initSegs, initAcc>>

\* env::var("PATHEXT") and pathext.split(';').
ReadEnv(t) ==
    /\ tpc[t] = "read"
    /\ envReads' = envReads + 1
    /\ initRead' = Some(pathext)
    /\ initSegs' = IF EnvIsOk(pathext) THEN Split(pathext[1], {";"}) ELSE <<>>
    /\ initAcc' = <<>>
    /\ tpc' = [tpc EXCEPT ![t] = "filter"]
    /\ UNCHANGED <<windows, pathext, findVars, once_state, PATH_EXTENSIONS, tobs, seen>>

\* One step of filter_map(...).collect().
FilterSegment(t) ==
    /\ tpc[t] = "filter"
    /\ initSegs # <<>>
    /\ IF segment_panics(Head(initSegs))
       THEN /\ once_state' = "poisoned"
            /\ tpc' = [tpc EXCEPT ![t] = "panicked"]
            /\ initSegs' = <<>>
            /\ initAcc' = <<>>
       ELSE /\ initAcc' = IF segment_kept(Head(initSegs))
                          THEN Append(initAcc, Head(initSegs)) ELSE initAcc
            /\ initSegs' = Tail(initSegs)
            /\ UNCHANGED <<once_state, tpc>>
    /\ UNCHANGED <<windows, pathext, findVars, PATH_EXTENSIONS, envReads, initRead,
                   tobs, seen>>

\* The collected vector is stored in the cell and the Once completes.
Publish(t) ==
    /\ tpc[t] = "filter"
    /\ initSegs = <<>>
    /\ PATH_EXTENSIONS' = initAcc
    /\ once_state' = "complete"
    /\ tobs' = [tobs EXCEPT ![t] = Some(initAcc)]
    /\ seen' = seen \cup {initAcc}
    /\ initAcc' = <<>>
    /\ tpc' = [tpc EXCEPT ![t] = Held(t)]
    /\ UNCHANGED <<windows, pathext, findVars, envReads, initRead, initSegs>>

\* A blocked dereference resumes when the Once has finished.
Wake(t) ==
    /\ tpc[t] = "waiting"
    /\ once_state \in {"complete", "poisoned"}
    /\ IF once_state = "complete"
       THEN /\ observe(t)
            /\ tpc' = [tpc EXCEPT ![t] = Held(t)]
       ELSE /\ tpc' = [tpc EXCEPT ![t] = "panicked"]
            /\ UNCHANGED <<tobs, seen>>
    /\ UNCHANGED <<windows, pathext, findVars, staticVars, initSegs, initAcc>>

\* Somebody changes the environment value.
Setenv ==
    /\ windows
    /\ \E v \in SetenvValues \ {pathext} : pathext' = v
    /\ UNCHANGED <<windows, findVars, staticVars, raceVars>>

Next ==
    \/ Find \/ CallNext \/ PullOuter \/ Expand \/ PullInner \/ Check \/ Exhaust
    \/ \E t \in FindParties : Deref(t)
    \/ \E t \in FindParties : ReadEnv(t)
    \/ \E t \in FindParties : FilterSegment(t)
    \/ \E t \in FindParties : Publish(t)
    \/ \E t \in FindParties : Wake(t)
    \/ Setenv

Spec == Init /\ [][Next]_vars

\* The threads alone, without a find call.
NextStatic ==
    \/ \E t \in Threads : Deref(t)
    \/ \E t \in Threads : ReadEnv(t)
    \/ \E t \in Threads : FilterSegment(t)
    \/ \E t \in Threads : Publish(t)
    \/ \E t \in Threads : Wake(t)
    \/ Setenv

SpecStatic == InitStatic /\ [][NextStatic]_vars

----------------------------------------------------------------------------
(* Properties.                                                             *)

RECURSIVE Flatten(_)
Flatten(ss) == IF ss = <<>> THEN <<>> ELSE Head(ss) \o Flatten(Tail(ss))

PathsOf(cs) == [i \in 1..Len(cs) |-> cs[i].path]
IsOk(c) == c.ok
Pending == IF pc = "check" THEN <<cand>> ELSE <<>>
IsPrefix(a, b) == Len(a) <= Len(b) /\ a = SubSeq(b, 1, Len(a))
ContainsSeparator(w, p) == \E i \in 1..Len(p) : p[i] \in Seps(w)
GroupDone(i) == i < Len(groups) \/ (inner = <<>> /\ pc # "deref")
Suffixed(p, exts) == [j \in 1..Len(exts) |-> p \o exts[j]]
StartsWithDot(seg) == seg # <<>> /\ seg[1] = "."
DotSegments(env) ==
    IF EnvIsOk(env) THEN SelectSeq(Split(env[1], {";"}), StartsWithDot) ELSE <<>>

\* C1: find returns Err exactly when the list-search strategy is selected and
\* paths is None; then nothing was generated and the checker never ran.  In
\* every other case find returns Ok.
C1_ErrorIffListWithoutPaths ==
    /\ pc = "start" => result = "none"
    /\ pc # "start" =>
          /\ result \in {"Ok", "Err"}
          /\ result = "Err" <=>
                (~has_separator(windows, binary_name) /\ paths = None)
    /\ result = "Err" =>
          /\ pc = "err"
          /\ candidates = <<>> /\ generated = <<>> /\ groups = <<>>
          /\ checked = <<>> /\ yielded = <<>> /\ calls = 0
          /\ tpc[0] = "idle" /\ tobs[0] = None

C1_Witness == pc = "err" /\ result = "Err" /\ paths = None

\* C2: every name that contains a separator, at any position, selects the
\* direct strategy, whose single pre-expansion candidate is the name itself
\* if absolute and cwd joined with the name otherwise.
C2_SeparatorSelectsDirect ==
    (pc # "start" /\ ContainsSeparator(windows, binary_name)) =>
        /\ result = "Ok"
        /\ strategy = "direct"
        /\ candidates = <<IF IsAbsolute(windows, binary_name)
                          THEN binary_name
                          ELSE join(windows, cwd, binary_name)>>

\* C3: a name without separator and a search list of N entries give exactly
\* the N candidates SearchList[i] joined with the name, in order, whatever
\* the entries are; cwd plays no part.
C3_ListCandidates ==
    (result = "Ok" /\ ~has_separator(windows, binary_name)) =>
        LET dirs == split_paths(windows, paths[1])
        IN  /\ strategy = "list"
            /\ Len(generated) <= Len(dirs)
            /\ \A i \in 1..Len(generated) :
                  generated[i] = join(windows, dirs[i], binary_name)
            /\ pc = "done" => Len(generated) = Len(dirs)

C3_Witness ==
    /\ pc = "done" /\ strategy = "list"
    /\ Len(generated) = 3
    /\ generated[1] # generated[2]
    /\ \E i \in 1..3 : split_paths(windows, paths[1])[i] = <<>>

\* C4: the returned items are exactly the checked candidates for which the
\* checker answered true, in order and unaltered.
C4_FilterIsSubsequence ==
    /\ yielded = PathsOf(SelectSeq(checked, IsOk))
    /\ \A i \in 1..Len(checked) : checked[i].path = Flatten(groups)[i]

C4_Witness ==
    /\ pc = "done"
    /\ Len(yielded) >= 2
    /\ Len(yielded) < Len(checked)
    /\ yielded[1] # yielded[2]
    /\ ~checked[1].ok

\* C5: every returned path is absolute (stated for the unix build, where
\* absolute means rooted).
C5_YieldedAbsolute ==
    ~windows => \A i \in 1..Len(yielded) : IsAbsolute(windows, yielded[i])

\* C6: populating the table never fails: whatever the environment value, the
\* cell is never poisoned, no dereference panics, and the table holds exactly
\* the segments that begin with a dot, in order (empty when the value is
\* absent or not Unicode).
C6_PopulationNeverFails ==
    /\ once_state # "poisoned"
    /\ \A t \in Parties : tpc[t] # "panicked"
    /\ once_state = "complete" => PATH_EXTENSIONS = DotSegments(initRead[1])

\* C7: on windows a candidate without a recognised suffix expands to the
\* candidate with each table entry appended, in table order (to nothing when
\* the table is empty), and the expansions follow one another in candidate
\* order.
C7_ExpansionAppendsEachSuffix ==
    (windows /\ once_state = "complete") =>
        /\ \A i \in 1..Len(groups) :
              ~has_executable_extension(windows, generated[i], PATH_EXTENSIONS) =>
                  /\ IsPrefix(groups[i], Suffixed(generated[i], PATH_EXTENSIONS))
                  /\ GroupDone(i) =>
                        groups[i] = Suffixed(generated[i], PATH_EXTENSIONS)
        /\ PATH_EXTENSIONS = <<>> => (checked = <<>> /\ cand = <<>>)
        /\ pc = "done" =>
              PathsOf(checked) =
                  Flatten([i \in 1..Len(generated) |->
                      IF has_executable_extension(windows, generated[i],
                                                  PATH_EXTENSIONS)
                      THEN <<generated[i]>>
                      ELSE Suffixed(generated[i], PATH_EXTENSIONS)])

C7_Witness ==
    /\ windows /\ pc = "done"
    /\ Len(PATH_EXTENSIONS) = 2
    /\ PATH_EXTENSIONS[1] # PATH_EXTENSIONS[2]
    /\ Len(generated) = 2
    /\ generated[1] # generated[2]
    /\ \A i \in 1..2 :
          ~has_executable_extension(windows, generated[i], PATH_EXTENSIONS)
    /\ Len(checked) = 4

\* C8: on windows a candidate that already ends with a recognised suffix
\* expands to itself alone; on unix every candidate expands to itself, so
\* the expanded sequence is the pre-expansion sequence.
C8_SuffixedOrUnixUnchanged ==
    /\ (windows /\ once_state = "complete") =>
          \A i \in 1..Len(groups) :
              has_executable_extension(windows, generated[i], PATH_EXTENSIONS) =>
                  /\ IsPrefix(groups[i], <<generated[i]>>)
                  /\ GroupDone(i) => groups[i] = <<generated[i]>>
    /\ ~windows =>
          /\ \A i \in 1..Len(groups) :
                /\ IsPrefix(groups[i], <<generated[i]>>)
                /\ GroupDone(i) => groups[i] = <<generated[i]>>
          /\ pc = "done" => PathsOf(checked) = candidates

C8_Witness ==
    /\ windows /\ pc = "done" /\ once_state = "complete"
    /\ PATH_EXTENSIONS # <<>>
    /\ \E i \in 1..Len(generated) :
          /\ has_executable_extension(windows, generated[i], PATH_EXTENSIONS)
          /\ groups[i] = <<generated[i]>>

\* C9: the environment value is read by at most one initialisation, every
\* dereference sees the one fully built table of the value read then, and a
\* later change of the environment value is not observed.
C9_InitialisedOnce ==
    /\ envReads <= 1
    /\ once_state = "complete" =>
          /\ envReads = 1
          /\ PATH_EXTENSIONS = path_extensions(initRead[1])
    /\ \A t \in Parties :
          tobs[t] # None =>
              /\ once_state = "complete"
              /\ tobs[t] = Some(PATH_EXTENSIONS)
    /\ Cardinality(seen) <= 1
    /\ seen # {} => seen = {PATH_EXTENSIONS}

C9_Witness ==
    /\ once_state = "complete"
    /\ initRead # Some(pathext)
    /\ PATH_EXTENSIONS # <<>>
    /\ path_extensions(pathext) # PATH_EXTENSIONS
    /\ \A t \in Threads : tobs[t] = Some(PATH_EXTENSIONS)

\* C10: evaluation is driven by the caller: before the first next() nothing
\* is generated or checked, and when the caller holds k results the checker
\* has run once each, in generation order, on the candidates up to the k-th
\* passing one and on nothing after it.
C10_LazyEvaluation ==
    /\ calls = 0 =>
          (checked = <<>> /\ generated = <<>> /\ cand = <<>>
           /\ tpc[0] = "idle" /\ tobs[0] = None)
    /\ Len(yielded) <= calls
    /\ PathsOf(checked) \o Pending = Flatten(groups)
    /\ Len(groups) = outer
    /\ generated = SubSeq(candidates, 1, outer)
    /\ (pc = "idle" /\ calls > 0) =>
          /\ Len(yielded) = calls
          /\ Len(SelectSeq(checked, IsOk)) = calls
          /\ Last(checked).ok
          /\ Last(checked).path = Last(yielded)
          /\ Last(groups) # <<>>
          /\ Last(Last(groups)) = Last(yielded)

C10_Witness ==
    /\ pc = "idle"
    /\ Len(yielded) = 1
    /\ Len(checked) = 2
    /\ outer < Len(candidates)

====
